---- MODULE Spec2Model ----
(***************************************************************************)
(* LZ4 block decoder of pkg/goDB/encoder/lz4 (lz4.c, lz4.h).               *)
(*                                                                         *)
(* The model follows LZ4_decompress_generic() as instantiated by           *)
(* LZ4_decompress_safe(): endOnInput = endOnInputSize, dict = noDict,      *)
(* lowPrefix = dst, dictSize = 0.  The partialDecoding directive is kept   *)
(* as a parameter of the run.  Pointers are byte indexes: the source block *)
(* is src[0 .. srcSize), the destination is dst[0 .. outputSize).          *)
(* One action per labelled stage of the two decoding loops.                *)
(***************************************************************************)
EXTENDS Integers, Sequences, FiniteSets, TLC

VARIABLES
    src,        \* the compressed block, a sequence of bytes (read-only)
    cap,        \* outputSize: dstCapacity of the destination buffer
    partial,    \* partialDecoding directive
    dst,        \* contents of the destination buffer, Uninit where never written
    ip,         \* input cursor (index into src)
    op,         \* output cursor (index into dst)
    cpy,        \* end of the copy in progress
    token,      \* token of the sequence in progress
    length,     \* literal length, then match length
    offset,     \* match offset of the sequence in progress
    match,      \* match source position (index into dst, < 0 when before dst)
    pc,         \* position in LZ4_decompress_generic
    ret,        \* return value, meaningful when pc is "Done" or "Error"
    wrLo, wrHi, \* extent [wrLo, wrHi) of all destination indexes written so far
    rdLo, rdHi, \* extent [rdLo, rdHi) of all source indexes read so far
    mrdLo, mrdHi, \* extent of all destination indexes read (match copies) so far
    nOut,       \* number of bytes the executed sequences have produced (literals + matches)
    offs,       \* history: <<offset, op>> of every offset field read so far
    mends,      \* history: <<op, match length>> of every match whose length was decoded
    LZ4_FAST_DEC_LOOP,  \* build option: TRUE when the fast loop is compiled in
    firstRun,   \* outcome <<ret, dst>> of an earlier call on the same arguments, or <<>>
    call        \* a call of one of the auxiliary functions: arguments and results

vars == <<src, cap, partial, dst, ip, op, cpy, token, length, offset, match, pc, ret,
          wrLo, wrHi, rdLo, rdHi, mrdLo, mrdHi, nOut, offs, mends,
          LZ4_FAST_DEC_LOOP, firstRun, call>>

(***************************************************************************)
(* Common constants (lz4.c)                                                *)
(***************************************************************************)
MINMATCH == 4
WILDCOPYLENGTH == 8
LASTLITERALS == 5
MFLIMIT == 12
\* variant: no safeguard distance is kept before the end of the output
MATCH_SAFEGUARD_DISTANCE_none == (2 * WILDCOPYLENGTH) - (4 * MINMATCH)
MATCH_SAFEGUARD_DISTANCE == (2 * WILDCOPYLENGTH) - MINMATCH
FASTLOOP_SAFE_DISTANCE == 64
ML_BITS == 4
ML_MASK == (2 ^ ML_BITS) - 1
RUN_BITS == 8 - ML_BITS
RUN_MASK == (2 ^ RUN_BITS) - 1

\* variable_length_error
loop_error == -2
initial_error == -1
ok == 0

\* directives fixed by LZ4_decompress_safe()
endOnInput == TRUE
lowPrefix == 0
dictSize == 0
safeDecode == endOnInput
\* variant: the offset is never checked against the start of the prefix
checkOffset_never == ~safeDecode
checkOffset == safeDecode /\ dictSize < 65536

\* a destination byte that was never written
Uninit == -1

Min(a, b) == IF a < b THEN a ELSE b
Max(a, b) == IF a > b THEN a ELSE b

(***************************************************************************)
(* Memory.  M is the record of the destination contents and of the access  *)
(* extents; every primitive returns the record after the access.           *)
(***************************************************************************)
SrcAt(i) == IF i >= 0 /\ i < Len(src) THEN src[i + 1] ELSE Uninit
DstAt(d, i) == IF i >= 0 /\ i < Len(d) THEN d[i + 1] ELSE Uninit

Mem == [d |-> dst, wlo |-> wrLo, whi |-> wrHi, rlo |-> rdLo, rhi |-> rdHi,
        mlo |-> mrdLo, mhi |-> mrdHi]

\* F applied to the value of x, which is computed once
With(x, F(_)) == CHOOSE r \in {F(v) : v \in {x}} : TRUE

\* a read of n source bytes at index s (token, offset and length-extension reads)
ReadSrc(M, s, n) ==
    IF n <= 0 THEN M
    ELSE With(M, LAMBDA m : [m EXCEPT !.rlo = Min(@, s), !.rhi = Max(@, s + n)])

\* memcpy / memmove of n bytes from the source block (from = "src") or from the
\* destination itself (from = "dst") to dst[dpos ..): the n bytes are read, then written
Memcpy(M, dpos, from, spos, n) ==
    IF n <= 0 THEN M
    ELSE With(M, LAMBDA m :
         LET bytes == [k \in 0..(n - 1) |->
                          IF from = "src" THEN SrcAt(spos + k) ELSE DstAt(m.d, spos + k)]
             d2 == [i \in 1..Len(m.d) |->
                      IF (i - 1) >= dpos /\ (i - 1) < dpos + n THEN bytes[i - 1 - dpos] ELSE m.d[i]]
         IN  IF from = "src"
             THEN [m EXCEPT !.d = d2, !.wlo = Min(@, dpos), !.whi = Max(@, dpos + n),
                            !.rlo = Min(@, spos), !.rhi = Max(@, spos + n)]
             ELSE [m EXCEPT !.d = d2, !.wlo = Min(@, dpos), !.whi = Max(@, dpos + n),
                            !.mlo = Min(@, spos), !.mhi = Max(@, spos + n)])

\* n stores of the constant byte v at dst[dpos ..)
Memset(M, dpos, v, n) ==
    IF n <= 0 THEN M
    ELSE With(M, LAMBDA m :
         [m EXCEPT !.d = [i \in 1..Len(m.d) |->
                             IF (i - 1) >= dpos /\ (i - 1) < dpos + n THEN v ELSE m.d[i]],
                   !.wlo = Min(@, dpos), !.whi = Max(@, dpos + n)])

\* variant: nothing is stored
LZ4_write32_none(M, dpos) == M

\* LZ4_write32(op, 0)
LZ4_write32(M, dpos) == Memset(M, dpos, 0, 4)

\* while (op < end) *op++ = *match++ : one byte at a time, each read sees earlier
\* stores. A run of two or more iterations is taken as its first half, carried
\* out to the end, followed by its second half on the memory the first left.
RECURSIVE ByteCopy(_, _, _, _)
ByteCopy(M, dpos, mpos, end) ==
    IF dpos >= end THEN M
    ELSE IF end - dpos = 1 THEN Memcpy(M, dpos, "dst", mpos, 1)
    ELSE With((end - dpos) \div 2, LAMBDA h :
         With(ByteCopy(M, dpos, mpos, dpos + h), LAMBDA m :
              ByteCopy(m, dpos + h, mpos + h, end)))

\* LZ4_readLE16
LZ4_readLE16(p) == SrcAt(p) + 256 * SrcAt(p + 1)

\* variant: the copy stops at dstEnd
LZ4_wildCopy8_exact(M, from, d, s, e) == Memcpy(M, d, from, s, e - d)

RECURSIVE LZ4_wildCopy8(_, _, _, _, _)
LZ4_wildCopy8(M, from, d, s, e) ==
    LET M1 == Memcpy(M, d, from, s, 8)
    IN  IF d + 8 < e THEN LZ4_wildCopy8(M1, from, d + 8, s + 8, e) ELSE M1

\* variant: the entry for offset 5 is off by one
inc32table_off5 == <<0, 1, 2, 1, 0, 3, 4, 4>>
inc32table == <<0, 1, 2, 1, 0, 4, 4, 4>>
\* variant: the entry for offset 7 is off by one
dec64table_off7 == <<0, 0, 0, -1, -4, 1, 2, 4>>
dec64table == <<0, 0, 0, -1, -4, 1, 2, 3>>

LZ4_memcpy_using_offset_base(M, dstPtr, srcPtr, dstEnd, off) ==
    IF off < 8
    THEN LET M1 == ByteCopy(M, dstPtr, srcPtr, dstPtr + 4)
             s1 == srcPtr + inc32table[off + 1]
             M2 == Memcpy(M1, dstPtr + 4, "dst", s1, 4)
             s2 == s1 - dec64table[off + 1]
         IN  LZ4_wildCopy8(M2, "dst", dstPtr + 8, s2, dstEnd)
    ELSE LET M1 == Memcpy(M, dstPtr, "dst", srcPtr, 8)
         IN  LZ4_wildCopy8(M1, "dst", dstPtr + 8, srcPtr + 8, dstEnd)

RECURSIVE LZ4_wildCopy32(_, _, _, _, _)
LZ4_wildCopy32(M, from, d, s, e) ==
    LET M1 == Memcpy(M, d, from, s, 16)
        M2 == Memcpy(M1, d + 16, from, s + 16, 16)
    IN  IF d + 32 < e THEN LZ4_wildCopy32(M2, from, d + 32, s + 32, e) ELSE M2

\* variant: the pattern is not stored
PatternFill_none(M, v, dstPtr, dstEnd) == M

\* stores of the 8-byte pattern v at dstPtr, dstPtr+8, ... while dstPtr < dstEnd
RECURSIVE PatternFill(_, _, _, _)
PatternFill(M, v, dstPtr, dstEnd) ==
    IF dstPtr < dstEnd
    THEN PatternFill(With(M, LAMBDA m :
                          [m EXCEPT !.d = [i \in 1..Len(m.d) |->
                                             IF (i - 1) >= dstPtr /\ (i - 1) < dstPtr + 8
                                             THEN v[i - dstPtr] ELSE m.d[i]],
                                    !.wlo = Min(@, dstPtr), !.whi = Max(@, dstPtr + 8)]),
                     v, dstPtr + 8, dstEnd)
    ELSE M

LZ4_memcpy_using_offset(M, dstPtr, srcPtr, dstEnd, off) ==
    With(LZ4_write32(M, dstPtr), LAMBDA M0 :
    LET rd(n) == [M0 EXCEPT !.mlo = Min(@, srcPtr), !.mhi = Max(@, srcPtr + n)]
        b(k) == DstAt(M0.d, srcPtr + k)
        fill(Mr, v) == PatternFill(PatternFill(Mr, v, dstPtr, dstPtr + 1), v, dstPtr + 8, dstEnd)
    IN  CASE off = 1 -> fill(rd(1), <<b(0), b(0), b(0), b(0), b(0), b(0), b(0), b(0)>>)
          [] off = 2 -> fill(rd(2), <<b(0), b(1), b(0), b(1), b(0), b(1), b(0), b(1)>>)
          [] off = 4 -> fill(rd(4), <<b(0), b(1), b(2), b(3), b(0), b(1), b(2), b(3)>>)
          [] OTHER   -> LZ4_memcpy_using_offset_base(M0, dstPtr, srcPtr, dstEnd, off))

(***************************************************************************)
(* read_variable_length: the record of the length read, the cursor after   *)
(* it and the error code.                                                  *)
(***************************************************************************)
\* variant: one byte is read, whatever its value
rvl_loop_single(p, len, lencheck, loop_check) ==
    [length |-> len + SrcAt(p), ip |-> p + 1, error |-> ok]

RECURSIVE rvl_loop(_, _, _, _)
rvl_loop(p, len, lencheck, loop_check) ==
    LET s == SrcAt(p)
        len1 == len + s
    IN  IF loop_check /\ (p + 1) >= lencheck
        THEN [length |-> len1, ip |-> p + 1, error |-> loop_error]
        ELSE IF s = 255 THEN rvl_loop(p + 1, len1, lencheck, loop_check)
        ELSE [length |-> len1, ip |-> p + 1, error |-> ok]

\* variant: the limit is not tested before the first read
read_variable_length_no_initial(p, lencheck, loop_check, initial_check) ==
    rvl_loop(p, 0, lencheck, loop_check)

read_variable_length(p, lencheck, loop_check, initial_check) ==
    IF initial_check /\ p >= lencheck
    THEN [length |-> 0, ip |-> p, error |-> initial_error]
    ELSE rvl_loop(p, 0, lencheck, loop_check)


(***************************************************************************)
(* LZ4_decompress_generic: locals                                          *)
(***************************************************************************)
srcSize == Len(src)
iend == srcSize
oend == cap
\* variant: the shortcut leaves no room for the 18 bytes of its match
shortoend_literals_only == oend - (IF endOnInput THEN 14 ELSE 8)
shortiend == iend - (IF endOnInput THEN 14 ELSE 8) - 2
shortoend == oend - (IF endOnInput THEN 14 ELSE 8) - 18

SetMem(M) ==
    /\ dst' = M.d
    /\ wrLo' = M.wlo /\ wrHi' = M.whi
    /\ rdLo' = M.rlo /\ rdHi' = M.rhi
    /\ mrdLo' = M.mlo /\ mrdHi' = M.mhi

\* what no step of the decoder changes: the arguments of the call, the build
\* option, and the records of other calls
Params == <<src, cap, partial, LZ4_FAST_DEC_LOOP, firstRun, call>>

\* variant: an empty source is not rejected
Entry_no_empty_check ==
    /\ pc = "entry"
    /\ UNCHANGED <<Params, ip, op, cpy, token, length, offset, match, nOut, offs, mends>>
    /\ IF endOnInput /\ cap = 0
       THEN IF partial
            THEN pc' = "Done" /\ ret' = 0 /\ SetMem(Mem)
            ELSE IF srcSize = 1
                 THEN /\ SetMem(ReadSrc(Mem, ip, 1))
                      /\ IF SrcAt(ip) = 0 THEN pc' = "Done" /\ ret' = 0
                                          ELSE pc' = "Error" /\ ret' = -1
                 ELSE pc' = "Error" /\ ret' = -1 /\ SetMem(Mem)
       ELSE /\ ret' = ret /\ SetMem(Mem)
            /\ IF (~LZ4_FAST_DEC_LOOP) \/ ((oend - op) < FASTLOOP_SAFE_DISTANCE)
               THEN pc' = "safe_decode"
               ELSE pc' = "fast_loop"

\* variant: with an empty output buffer any one-byte source is accepted
Entry_any_single_byte ==
    /\ pc = "entry"
    /\ UNCHANGED <<Params, ip, op, cpy, token, length, offset, match, nOut, offs, mends>>
    /\ IF endOnInput /\ cap = 0
       THEN IF partial
            THEN pc' = "Done" /\ ret' = 0 /\ SetMem(Mem)
            ELSE IF srcSize = 1
                 THEN pc' = "Done" /\ ret' = 0 /\ SetMem(ReadSrc(Mem, ip, 1))
                 ELSE pc' = "Error" /\ ret' = -1 /\ SetMem(Mem)
       ELSE IF endOnInput /\ srcSize = 0
            THEN pc' = "Error" /\ ret' = -1 /\ SetMem(Mem)
            ELSE /\ ret' = ret /\ SetMem(Mem)
                 /\ IF (~LZ4_FAST_DEC_LOOP) \/ ((oend - op) < FASTLOOP_SAFE_DISTANCE)
                    THEN pc' = "safe_decode"
                    ELSE pc' = "fast_loop"

\* variant: the fast loop is entered whatever the room left in dst
Entry_always_fast ==
    /\ pc = "entry"
    /\ UNCHANGED <<Params, ip, op, cpy, token, length, offset, match, nOut, offs, mends>>
    /\ IF endOnInput /\ cap = 0
       THEN IF partial
            THEN pc' = "Done" /\ ret' = 0 /\ SetMem(Mem)
            ELSE IF srcSize = 1
                 THEN /\ SetMem(ReadSrc(Mem, ip, 1))
                      /\ IF SrcAt(ip) = 0 THEN pc' = "Done" /\ ret' = 0
                                          ELSE pc' = "Error" /\ ret' = -1
                 ELSE pc' = "Error" /\ ret' = -1 /\ SetMem(Mem)
       ELSE IF endOnInput /\ srcSize = 0
            THEN pc' = "Error" /\ ret' = -1 /\ SetMem(Mem)
            ELSE /\ ret' = ret /\ SetMem(Mem)
                 /\ IF ~LZ4_FAST_DEC_LOOP
                    THEN pc' = "safe_decode"
                    ELSE pc' = "fast_loop"

\* Special cases, and the choice of the loop to start in
Entry ==
    /\ pc = "entry"
    /\ UNCHANGED <<Params, ip, op, cpy, token, length, offset, match, nOut, offs, mends>>
    /\ IF endOnInput /\ cap = 0
       THEN IF partial
            THEN pc' = "Done" /\ ret' = 0 /\ SetMem(Mem)
            ELSE IF srcSize = 1
                 THEN /\ SetMem(ReadSrc(Mem, ip, 1))
                      /\ IF SrcAt(ip) = 0 THEN pc' = "Done" /\ ret' = 0
                                          ELSE pc' = "Error" /\ ret' = -1
                 ELSE pc' = "Error" /\ ret' = -1 /\ SetMem(Mem)
       ELSE IF endOnInput /\ srcSize = 0
            THEN pc' = "Error" /\ ret' = -1 /\ SetMem(Mem)
            ELSE /\ ret' = ret /\ SetMem(Mem)
                 /\ IF (~LZ4_FAST_DEC_LOOP) \/ ((oend - op) < FASTLOOP_SAFE_DISTANCE)
                    THEN pc' = "safe_decode"
                    ELSE pc' = "fast_loop"

(***************************************************************************)
(* Fast loop                                                               *)
(***************************************************************************)
\* token, literal length and literal copy of one fast-loop iteration
FastLiterals ==
    /\ pc = "fast_loop"
    /\ UNCHANGED <<Params, ret, offset, match, offs, mends>>
    /\ LET tok == SrcAt(ip)
           M0 == ReadSrc(Mem, ip, 1)
           ip1 == ip + 1
           len0 == tok \div (2 ^ ML_BITS)
       IN  /\ token' = tok
           /\ IF len0 = RUN_MASK
              THEN LET r == read_variable_length(ip1, iend - RUN_MASK, endOnInput, endOnInput)
                       M1 == ReadSrc(M0, ip1, r.ip - ip1)
                       len == len0 + r.length
                       c == op + len
                   IN  IF r.error = initial_error
                       THEN /\ pc' = "_output_error" /\ ip' = r.ip /\ length' = len
                            /\ UNCHANGED <<op, cpy, nOut>> /\ SetMem(M1)
                       ELSE IF (c > oend - 32) \/ (r.ip + len > iend - 32)
                            THEN /\ pc' = "safe_literal_copy" /\ ip' = r.ip /\ length' = len
                                 /\ cpy' = c /\ UNCHANGED <<op, nOut>> /\ SetMem(M1)
                            ELSE /\ pc' = "fast_offset" /\ ip' = r.ip + len /\ length' = len
                                 /\ cpy' = c /\ op' = c /\ nOut' = nOut + len
                                 /\ SetMem(LZ4_wildCopy32(M1, "src", op, r.ip, c))
              ELSE LET c == op + len0
                   IN  IF ip1 > iend - (16 + 1)
                       THEN /\ pc' = "safe_literal_copy" /\ ip' = ip1 /\ length' = len0
                            /\ cpy' = c /\ UNCHANGED <<op, nOut>> /\ SetMem(M0)
                       ELSE /\ pc' = "fast_offset" /\ ip' = ip1 + len0 /\ length' = len0
                            /\ cpy' = c /\ op' = c /\ nOut' = nOut + len0
                            /\ SetMem(Memcpy(M0, op, "src", ip1, 16))

\* offset, match length, and the 18-byte fast path of one fast-loop iteration
FastOffset ==
    /\ pc = "fast_offset"
    /\ UNCHANGED <<Params, ret, token, cpy>>
    /\ LET off == LZ4_readLE16(ip)
           M0 == ReadSrc(Mem, ip, 2)
           ip2 == ip + 2
           m == op - off
           ml0 == token % (2 ^ ML_BITS)
       IN  /\ offset' = off /\ match' = m
           /\ offs' = Append(offs, <<off, op>>)
           /\ IF ml0 = ML_MASK
              THEN IF checkOffset /\ (m + dictSize < lowPrefix)
                   THEN /\ pc' = "_output_error" /\ ip' = ip2 /\ length' = ml0
                        /\ UNCHANGED <<op, nOut, mends>> /\ SetMem(M0)
                   ELSE LET r == read_variable_length(ip2, iend - LASTLITERALS + 1, endOnInput, FALSE)
                            M1 == ReadSrc(M0, ip2, r.ip - ip2)
                            len == ml0 + r.length + MINMATCH
                        IN  /\ ip' = r.ip /\ SetMem(M1) /\ UNCHANGED <<op, nOut>>
                            /\ IF r.error # ok
                               THEN /\ pc' = "_output_error" /\ length' = ml0 + r.length
                                    /\ UNCHANGED mends
                               ELSE /\ length' = len
                                    /\ mends' = Append(mends, <<op, len>>)
                                    /\ IF op + len >= oend - FASTLOOP_SAFE_DISTANCE
                                       THEN pc' = "safe_match_copy"
                                       ELSE pc' = "fast_match_copy"
              ELSE LET len == ml0 + MINMATCH
                   IN  /\ ip' = ip2 /\ length' = len
                       /\ mends' = Append(mends, <<op, len>>)
                       /\ IF op + len >= oend - FASTLOOP_SAFE_DISTANCE
                          THEN pc' = "safe_match_copy" /\ UNCHANGED <<op, nOut>> /\ SetMem(M0)
                          ELSE IF (m >= lowPrefix) /\ (off >= 8)
                               THEN /\ pc' = "fast_loop" /\ op' = op + len /\ nOut' = nOut + len
                                    /\ SetMem(Memcpy(Memcpy(Memcpy(M0, op, "dst", m, 8),
                                                     op + 8, "dst", m + 8, 8),
                                                     op + 16, "dst", m + 16, 2))
                               ELSE /\ UNCHANGED <<op, nOut>> /\ SetMem(M0)
                                    /\ IF checkOffset /\ (m + dictSize < lowPrefix)
                                       THEN pc' = "_output_error"
                                       ELSE pc' = "fast_match_copy"

\* copy match within block (fast loop)
FastMatchCopy ==
    /\ pc = "fast_match_copy"
    /\ UNCHANGED <<Params, ret, token, ip, length, offset, match, offs, mends>>
    /\ LET c == op + length
       IN  /\ cpy' = c /\ op' = c /\ nOut' = nOut + length
           /\ pc' = "fast_loop"
           /\ IF offset < 16
              THEN SetMem(LZ4_memcpy_using_offset(Mem, op, match, c, offset))
              ELSE SetMem(LZ4_wildCopy32(Mem, "dst", op, match, c))

(***************************************************************************)
(* Safe loop                                                               *)
(***************************************************************************)
\* token, the two-stage shortcut, and the literal length of one safe-loop iteration
SafeToken ==
    /\ pc = "safe_decode"
    /\ UNCHANGED <<Params, ret>>
    /\ LET tok == SrcAt(ip)
           M0 == ReadSrc(Mem, ip, 1)
           ip1 == ip + 1
           len0 == tok \div (2 ^ ML_BITS)
       IN  /\ token' = tok
           /\ IF (IF endOnInput THEN len0 # RUN_MASK ELSE len0 <= 8)
                 /\ (IF endOnInput THEN ip1 < shortiend ELSE TRUE) /\ (op <= shortoend)
              THEN \* the shortcut: 16 bytes on behalf of the literals
                   LET M1 == Memcpy(M0, op, "src", ip1, IF endOnInput THEN 16 ELSE 8)
                       op1 == op + len0
                       ip2 == ip1 + len0
                       ml0 == tok % (2 ^ ML_BITS)
                       off == LZ4_readLE16(ip2)
                       M2 == ReadSrc(M1, ip2, 2)
                       ip3 == ip2 + 2
                       m == op1 - off
                   IN  /\ offset' = off /\ match' = m /\ ip' = ip3
                       /\ offs' = Append(offs, <<off, op1>>)
                       /\ UNCHANGED cpy
                       /\ IF (ml0 # ML_MASK) /\ (off >= 8) /\ (m >= lowPrefix)
                          THEN /\ pc' = "safe_decode" /\ length' = ml0
                               /\ op' = op1 + ml0 + MINMATCH
                               /\ nOut' = nOut + len0 + ml0 + MINMATCH
                               /\ mends' = Append(mends, <<op1, ml0 + MINMATCH>>)
                               /\ SetMem(Memcpy(Memcpy(Memcpy(M2, op1, "dst", m, 8),
                                                op1 + 8, "dst", m + 8, 8),
                                                op1 + 16, "dst", m + 16, 2))
                          ELSE /\ pc' = "_copy_match" /\ length' = ml0
                               /\ op' = op1 /\ nOut' = nOut + len0
                               /\ UNCHANGED mends /\ SetMem(M2)
              ELSE /\ UNCHANGED <<op, offset, match, nOut, offs, mends>>
                   /\ IF len0 = RUN_MASK
                      THEN LET r == read_variable_length(ip1, iend - RUN_MASK, endOnInput, endOnInput)
                               M1 == ReadSrc(M0, ip1, r.ip - ip1)
                               len == len0 + r.length
                           IN  /\ ip' = r.ip /\ length' = len /\ SetMem(M1)
                               /\ IF r.error = initial_error
                                  THEN pc' = "_output_error" /\ UNCHANGED cpy
                                  ELSE pc' = "safe_literal_copy" /\ cpy' = op + len
                      ELSE /\ ip' = ip1 /\ length' = len0 /\ SetMem(M0)
                           /\ pc' = "safe_literal_copy" /\ cpy' = op + len0

\* variant: a literal run is only tested against the end of the output
LastSequenceTest_output_only ==
    \/ (endOnInput /\ (cpy > oend - MFLIMIT))
    \/ ((~endOnInput) /\ (cpy > oend - WILDCOPYLENGTH))

\* the test that sends a literal run to the last-sequence handling
LastSequenceTest ==
    \/ (endOnInput /\ ((cpy > oend - MFLIMIT) \/ (ip + length > iend - (2 + 1 + LASTLITERALS))))
    \/ ((~endOnInput) /\ (cpy > oend - WILDCOPYLENGTH))

\* variant: the last literal run is not checked against the end of the output
LastSequenceError_input_only ==
    \/ ((~endOnInput) /\ (cpy # oend))
    \/ (endOnInput /\ (ip + length # iend))

\* variant: the last literal run is not checked against the end of the input
LastSequenceError_output_only ==
    \/ ((~endOnInput) /\ (cpy # oend))
    \/ (endOnInput /\ (cpy > oend))

\* the check of the last sequence in non-partial mode: TRUE when it is rejected
LastSequenceError ==
    \/ ((~endOnInput) /\ (cpy # oend))
    \/ (endOnInput /\ ((ip + length # iend) \/ (cpy > oend)))

\* copy literals (label safe_literal_copy)
SafeLiteralCopy ==
    /\ pc = "safe_literal_copy"
    /\ UNCHANGED <<Params, ret, token, offset, match, offs, mends>>
    /\ IF LastSequenceTest
       THEN IF partial
            THEN IF (ip + length > iend - (2 + 1 + LASTLITERALS)) /\ (ip + length # iend)
                 THEN /\ pc' = "_output_error"
                      /\ UNCHANGED <<ip, op, cpy, length, nOut>> /\ SetMem(Mem)
                 ELSE LET c == IF cpy > oend THEN oend ELSE cpy
                          len == IF cpy > oend THEN oend - op ELSE length
                      IN  /\ cpy' = c /\ length' = len
                          /\ ip' = ip + len /\ op' = op + len /\ nOut' = nOut + len
                          /\ SetMem(Memcpy(Mem, op, "src", ip, len))
                          /\ IF (c = oend) \/ (ip + len = iend)
                             THEN pc' = "end_of_decoding"
                             ELSE pc' = "get_offset"
            ELSE IF LastSequenceError
                 THEN /\ pc' = "_output_error"
                      /\ UNCHANGED <<ip, op, cpy, length, nOut>> /\ SetMem(Mem)
                 ELSE /\ pc' = "end_of_decoding"
                      /\ ip' = ip + length /\ op' = op + length /\ nOut' = nOut + length
                      /\ UNCHANGED <<cpy, length>>
                      /\ SetMem(Memcpy(Mem, op, "src", ip, length))
       ELSE /\ pc' = "get_offset"
            /\ ip' = ip + length /\ op' = cpy /\ nOut' = nOut + length
            /\ UNCHANGED <<cpy, length>>
            /\ SetMem(LZ4_wildCopy8(Mem, "src", op, ip, cpy))

\* get offset, get matchlength (the token's nibble)
GetOffset ==
    /\ pc = "get_offset"
    /\ UNCHANGED <<Params, ret, token, op, cpy, nOut, mends>>
    /\ LET off == LZ4_readLE16(ip)
       IN  /\ offset' = off /\ match' = op - off /\ ip' = ip + 2
           /\ offs' = Append(offs, <<off, op>>)
           /\ length' = token % (2 ^ ML_BITS)
           /\ SetMem(ReadSrc(Mem, ip, 2))
           /\ pc' = "_copy_match"

\* label _copy_match: the match-length extension, plus MINMATCH
CopyMatch ==
    /\ pc = "_copy_match"
    /\ UNCHANGED <<Params, ret, token, op, cpy, offset, match, nOut, offs>>
    /\ IF length = ML_MASK
       THEN LET r == read_variable_length(ip, iend - LASTLITERALS + 1, endOnInput, FALSE)
            IN  /\ ip' = r.ip /\ SetMem(ReadSrc(Mem, ip, r.ip - ip))
                /\ IF r.error # ok
                   THEN /\ pc' = "_output_error" /\ length' = length + r.length
                        /\ UNCHANGED mends
                   ELSE /\ pc' = "safe_match_copy" /\ length' = length + r.length + MINMATCH
                        /\ mends' = Append(mends, <<op, length + r.length + MINMATCH>>)
       ELSE /\ pc' = "safe_match_copy" /\ length' = length + MINMATCH
            /\ mends' = Append(mends, <<op, length + MINMATCH>>)
            /\ UNCHANGED ip /\ SetMem(Mem)

\* label safe_match_copy: the offset check, the partial-decoding copy, or the
\* first 8 bytes of the match (op += 8)
SafeMatchCopy ==
    /\ pc = "safe_match_copy"
    /\ UNCHANGED <<Params, ret, token, ip, length, offset, offs, mends>>
    /\ IF checkOffset /\ (match + dictSize < lowPrefix)
       THEN /\ pc' = "_output_error"
            /\ UNCHANGED <<op, cpy, match, nOut>> /\ SetMem(Mem)
       ELSE LET c == op + length
            IN  /\ cpy' = c
                /\ IF partial /\ (c > oend - MATCH_SAFEGUARD_DISTANCE)
                   THEN LET mlen == Min(length, oend - op)
                            matchEnd == match + mlen
                            copyEnd == op + mlen
                        IN  /\ op' = copyEnd /\ nOut' = nOut + mlen
                            /\ IF matchEnd > op
                               THEN /\ SetMem(ByteCopy(Mem, op, match, copyEnd))
                                    /\ match' = match + Max(copyEnd - op, 0)
                               ELSE /\ SetMem(Memcpy(Mem, op, "dst", match, mlen))
                                    /\ match' = match
                            /\ IF copyEnd = oend
                               THEN pc' = "end_of_decoding"
                               ELSE pc' = "safe_decode"
                   ELSE /\ pc' = "safe_match_tail"
                        /\ op' = op + 8 /\ nOut' = nOut
                        /\ IF offset < 8
                           THEN LET M0 == LZ4_write32(Mem, op)
                                    M1 == ByteCopy(M0, op, match, op + 4)
                                    m1 == match + inc32table[offset + 1]
                                    M2 == Memcpy(M1, op + 4, "dst", m1, 4)
                                IN  /\ match' = m1 - dec64table[offset + 1]
                                    /\ SetMem(M2)
                           ELSE /\ match' = match + 8
                                /\ SetMem(Memcpy(Mem, op, "dst", match, 8))

\* variant: a match is only rejected when it ends beyond the output
MatchEndError_beyond == cpy > oend

\* last LASTLITERALS bytes must be literals: TRUE when the match is rejected
MatchEndError == cpy > oend - LASTLITERALS

\* the rest of the match, and op = cpy (wildcopy correction)
SafeMatchTail ==
    /\ pc = "safe_match_tail"
    /\ UNCHANGED <<Params, ret, token, ip, length, offset, cpy, offs, mends>>
    /\ IF cpy > oend - MATCH_SAFEGUARD_DISTANCE
       THEN LET oCopyLimit == oend - (WILDCOPYLENGTH - 1)
            IN  IF MatchEndError
                THEN /\ pc' = "_output_error"
                     /\ UNCHANGED <<op, match, nOut>> /\ SetMem(Mem)
                ELSE LET M1 == IF op < oCopyLimit
                               THEN LZ4_wildCopy8(Mem, "dst", op, match, oCopyLimit)
                               ELSE Mem
                         m1 == IF op < oCopyLimit THEN match + (oCopyLimit - op) ELSE match
                         op1 == IF op < oCopyLimit THEN oCopyLimit ELSE op
                     IN  /\ pc' = "safe_decode"
                         /\ SetMem(ByteCopy(M1, op1, m1, cpy))
                         /\ match' = m1 + Max(cpy - op1, 0)
                         /\ op' = cpy /\ nOut' = nOut + length
       ELSE LET M1 == Memcpy(Mem, op, "dst", match, 8)
            IN  /\ pc' = "safe_decode"
                /\ SetMem(IF length > 16
                          THEN LZ4_wildCopy8(M1, "dst", op + 8, match + 8, cpy)
                          ELSE M1)
                /\ match' = match
                /\ op' = cpy /\ nOut' = nOut + length

(***************************************************************************)
(* Exits                                                                   *)
(***************************************************************************)
\* variant: the number of input bytes read is returned
DecodedResult_input == IF endOnInput THEN ip ELSE op

\* the value returned at the end of decoding
DecodedResult == IF endOnInput THEN op ELSE ip

\* variant: the error value is taken from the output cursor
ErrorResult_output == (-op) - 1

\* the value returned at _output_error
ErrorResult == (-ip) - 1

\* end of decoding: Nb of output bytes decoded
EndOfDecoding ==
    /\ pc = "end_of_decoding"
    /\ pc' = "Done"
    /\ ret' = DecodedResult
    /\ SetMem(Mem)
    /\ UNCHANGED <<Params, ip, op, cpy, token, length, offset, match, nOut, offs, mends>>

\* label _output_error: overflow error detected
OutputError ==
    /\ pc = "_output_error"
    /\ pc' = "Error"
    /\ ret' = ErrorResult
    /\ SetMem(Mem)
    /\ UNCHANGED <<Params, ip, op, cpy, token, length, offset, match, nOut, offs, mends>>

(***************************************************************************)
(* Block format (lz4.h, spec section 6): the reference expansion of a      *)
(* block, independent of the decoder above.                                *)
(***************************************************************************)
\* a length extension at index p (0-based): bytes are added until one is < 255
RECURSIVE RefExt(_, _, _)
RefExt(s, p, acc) ==
    IF p >= Len(s) THEN [ok |-> FALSE, v |-> acc, p |-> p]
    ELSE IF s[p + 1] = 255 THEN RefExt(s, p + 1, acc + 255)
    ELSE [ok |-> TRUE, v |-> acc + s[p + 1], p |-> p + 1]

\* a match of n bytes at distance off appended to out: byte p is the byte at
\* p - off, so the last off bytes repeat with period off (off = 0 yields zero bytes)
RefMatch(out, off, n) ==
    out \o [k \in 1..n |-> IF off = 0 THEN 0 ELSE out[Len(out) - off + 1 + ((k - 1) % off)]]

RefBad == [ok |-> FALSE, out |-> <<>>, lastMatch |-> -1, lastMatchEnd |-> -1, lastML |-> 0]

\* the sequences of s from index p on, out being the bytes produced so far;
\* zeroOK admits offset 0.  lastMatch and lastMatchEnd are the output positions
\* where the last match starts and ends, lastML the unused match nibble of the
\* final token
RECURSIVE RefSeqs(_, _, _, _, _, _)
RefSeqs(s, p, out, lastMatch, lastMatchEnd, zeroOK) ==
    IF p >= Len(s) THEN RefBad
    ELSE LET tok == s[p + 1]
             ll0 == tok \div 16
             ml0 == tok % 16
             le == IF ll0 = 15 THEN RefExt(s, p + 1, 0) ELSE [ok |-> TRUE, v |-> 0, p |-> p + 1]
             ll == ll0 + le.v
             q == le.p
         IN  IF (~le.ok) \/ (q + ll > Len(s)) THEN RefBad
             ELSE LET out1 == out \o SubSeq(s, q + 1, q + ll)
                      r == q + ll
                  IN  IF r = Len(s)
                      THEN [ok |-> TRUE, out |-> out1, lastMatch |-> lastMatch,
                            lastMatchEnd |-> lastMatchEnd, lastML |-> ml0]
                      ELSE IF r + 2 > Len(s) THEN RefBad
                      ELSE LET off == s[r + 1] + 256 * s[r + 2]
                               me == IF ml0 = 15 THEN RefExt(s, r + 2, 0)
                                     ELSE [ok |-> TRUE, v |-> 0, p |-> r + 2]
                               ml == ml0 + me.v + 4
                           IN  IF (~me.ok) \/ (off > Len(out1)) \/ (off = 0 /\ ~zeroOK)
                               THEN RefBad
                               ELSE RefSeqs(s, me.p, RefMatch(out1, off, ml),
                                            Len(out1), Len(out1) + ml, zeroOK)

RefDecode(s) == RefSeqs(s, 0, <<>>, -1, -1, FALSE)
RefDecodeZero(s) == RefSeqs(s, 0, <<>>, -1, -1, TRUE)

\* what a conforming encoder emits: a well-formed block whose final token has no
\* match nibble and that respects the end-of-block restrictions (the last match
\* starts at least MFLIMIT bytes before the end of the decoded data and the last
\* LASTLITERALS bytes are literals)
Conforming(s) ==
    LET r == RefDecode(s)
    IN  /\ r.ok
        /\ r.lastML = 0
        /\ (r.lastMatch >= 0 =>
               /\ r.lastMatch <= Len(r.out) - MFLIMIT
               /\ r.lastMatchEnd <= Len(r.out) - LASTLITERALS)

(***************************************************************************)
(* Inputs                                                                  *)
(***************************************************************************)
Lits(n, first) == [i \in 1..n |-> first + i - 1]

\* conforming blocks, one per decoding path
Blocks == <<
    \* the empty block
    <<0>>,
    \* literals only: "abcd"
    <<64, 97, 98, 99, 100>>,
    \* "ab", offset 2, match length 6, then 6 literals
    <<34, 97, 98, 2, 0, 96>> \o Lits(6, 99),
    \* literal length 15 with the single extension byte 0
    <<240, 0>> \o Lits(15, 97),
    \* 8 literals + match (offset 8, length 4), 4 literals + match (offset 12,
    \* length 19 by extension), 14 literals
    <<128>> \o Lits(8, 97) \o <<8, 0, 79>> \o Lits(4, 105) \o <<12, 0, 0, 224>> \o Lits(14, 109),
    \* matches at offsets 1, 2, 3, 4, 9, 20, 10, then 17 literals
    <<20, 97, 1, 0,  34, 98, 99, 2, 0,  19, 100, 3, 0,  4, 4, 0,  15, 9, 0, 0,
      15, 20, 0, 1,  16, 101, 10, 0,  240, 2>> \o Lits(17, 102),
    \* 15 literals by extension + match (offset 15, length 5), 29 literals
    <<241, 0>> \o Lits(15, 97) \o <<15, 0, 240, 14>> \o Lits(29, 112),
    \* matches at offsets 5, 6, 7, then 17 literals
    <<83>> \o Lits(5, 97) \o <<5, 0,  21, 102, 6, 0,  6, 7, 0,  240, 2>> \o Lits(17, 103),
    \* 1 literal + match (offset 1, length 19 by extension) ending LASTLITERALS
    \* bytes before the end, 5 literals
    <<31, 97, 1, 0, 0, 80>> \o Lits(5, 98)
  >>

\* bytes a corruption may put in place of one byte of a block
MutBytes == {0, 15, 240, 255}

\* bounds of the input family
MaxTrunc == 1     \* bytes that may be missing from the end of the block
MaxSlack == 1     \* capacities within MaxSlack of the decoded size

\* capacities for a block of decoded size D: none, about D, D with room for a
\* last match, D with room for the fast loop
Capacities(D) ==
    {0, D + MFLIMIT, D + FASTLOOP_SAFE_DISTANCE}
        \cup {c \in 0..(D + MaxSlack) : c >= D - MaxSlack}

\* a block, possibly with one byte replaced, possibly cut short
Variants(b) == {b} \cup {[b EXCEPT ![p] = v] : p \in 1..Len(b), v \in MutBytes}
Cuts(b) == {SubSeq(b, 1, n) : n \in (Len(b) - MaxTrunc)..Len(b)}
Corrupted(b) == UNION {Cuts(v) : v \in Variants(b)}
DecodedSize(b) == Len(RefDecode(b).out)

\* <<block, capacity>> pairs given to LZ4_decompress_safe()
Inputs ==
    UNION {{<<c, k>> : c \in Corrupted(Blocks[i]), k \in Capacities(DecodedSize(Blocks[i]))}
           : i \in 1..Len(Blocks)}

\* <<block, capacity>> pairs given to the engine in partial-decoding mode: every
\* capacity up to the decoded size for the blocks as they are, and the
\* capacities D/2 and D for the corrupted ones
PartialInputs ==
    UNION {{<<Blocks[i], k>> : k \in 0..(DecodedSize(Blocks[i]) + MaxSlack)}
             \cup {<<c, k>> : c \in Corrupted(Blocks[i]),
                              k \in {DecodedSize(Blocks[i]) \div 2, DecodedSize(Blocks[i])}}
           : i \in 1..Len(Blocks)}

\* no auxiliary function is being called
NoCall == [fn |-> "none"]

InitRegs ==
    /\ firstRun = <<>> /\ call = NoCall
    /\ dst = [i \in 1..cap |-> Uninit]
    /\ ip = 0 /\ op = 0 /\ cpy = 0 /\ token = 0 /\ length = 0 /\ offset = 0 /\ match = 0
    /\ pc = "entry" /\ ret = 0
    /\ wrLo = 0 /\ wrHi = 0 /\ rdLo = 0 /\ rdHi = 0 /\ mrdLo = 0 /\ mrdHi = 0
    /\ nOut = 0 /\ offs = <<>> /\ mends = <<>>

\* LZ4_decompress_safe(): decode_full_block
Init ==
    /\ \E in \in Inputs : src = in[1] /\ cap = in[2]
    /\ partial = FALSE
    /\ LZ4_FAST_DEC_LOOP = TRUE
    /\ InitRegs

Next ==
    \/ Entry
    \/ FastLiterals
    \/ FastOffset
    \/ FastMatchCopy
    \/ SafeToken
    \/ SafeLiteralCopy
    \/ GetOffset
    \/ CopyMatch
    \/ SafeMatchCopy
    \/ SafeMatchTail
    \/ EndOfDecoding
    \/ OutputError

Spec == Init /\ [][Next]_vars

\* the engine with the partial_decode directive
InitPartial ==
    /\ \E in \in PartialInputs : src = in[1] /\ cap = in[2]
    /\ partial = TRUE
    /\ LZ4_FAST_DEC_LOOP = TRUE
    /\ InitRegs

SpecPartial == InitPartial /\ [][Next]_vars

\* both settings of the partialDecoding directive
InitModes == Init \/ InitPartial

SpecModes == InitModes /\ [][Next]_vars

\* <<block, capacity>> pairs for the calls followed to their return: the blocks
\* as they are and with their first token or the byte after it replaced,
\* possibly cut short
LiveInputs ==
    UNION {{<<c, k>> : c \in UNION {Cuts(v) : v \in {Blocks[i]} \cup
                                       {[Blocks[i] EXCEPT ![p] = x] : p \in 1..Min(2, Len(Blocks[i])),
                                                                      x \in MutBytes}},
                      k \in Capacities(DecodedSize(Blocks[i]))}
           : i \in 1..Len(Blocks)}

InitLive ==
    /\ \E in \in LiveInputs : src = in[1] /\ cap = in[2]
    /\ partial \in BOOLEAN
    /\ LZ4_FAST_DEC_LOOP = TRUE
    /\ InitRegs

\* a call, once made, runs until it returns
SpecLive == InitLive /\ [][Next]_vars /\ WF_vars(Next)

(***************************************************************************)
(* The two builds: LZ4_FAST_DEC_LOOP = 1 and LZ4_FAST_DEC_LOOP = 0         *)
(***************************************************************************)
\* after the call of the build with the fast loop has returned, the same
\* arguments are given to the build without it; the first outcome is kept
DecodeAgain ==
    /\ pc \in {"Done", "Error"} /\ LZ4_FAST_DEC_LOOP /\ firstRun = <<>>
    /\ firstRun' = <<ret, dst>>
    /\ LZ4_FAST_DEC_LOOP' = FALSE
    /\ dst' = [i \in 1..cap |-> Uninit]
    /\ ip' = 0 /\ op' = 0 /\ cpy' = 0 /\ token' = 0 /\ length' = 0 /\ offset' = 0 /\ match' = 0
    /\ pc' = "entry" /\ ret' = 0
    /\ wrLo' = 0 /\ wrHi' = 0 /\ rdLo' = 0 /\ rdHi' = 0 /\ mrdLo' = 0 /\ mrdHi' = 0
    /\ nOut' = 0 /\ offs' = <<>> /\ mends' = <<>>
    /\ UNCHANGED <<src, cap, partial, call>>

NextBuilds == Next \/ DecodeAgain

SpecBuilds == Init /\ [][NextBuilds]_vars

(***************************************************************************)
(* Blocks with one overlapping match: 7 literals, a match at an offset in  *)
(* 1..7 of a length in MINMATCH..MaxMatch, and a last literal run          *)
(***************************************************************************)
MaxMatch == 24

\* the bytes of a length: the nibble, and the extension bytes after it
Nibble(n) == IF n < 15 THEN n ELSE 15
RECURSIVE Extension(_)
Extension(n) == IF n >= 255 THEN <<255>> \o Extension(n - 255) ELSE <<n>>
LengthBytes(n) == IF n < 15 THEN <<>> ELSE Extension(n - 15)

OverlapBlock(off, ml, last) ==
    <<16 * 7 + Nibble(ml - MINMATCH)>> \o Lits(7, 97) \o <<off, 0>>
        \o LengthBytes(ml - MINMATCH) \o <<16 * last>> \o Lits(last, 110)

OverlapInputs ==
    {<<OverlapBlock(off, ml, last), 7 + ml + last + k>> :
         off \in 1..7, ml \in MINMATCH..MaxMatch, last \in {LASTLITERALS, WILDCOPYLENGTH, MFLIMIT},
         k \in {0, FASTLOOP_SAFE_DISTANCE}}

InitOverlap ==
    \/ Init
    \/ /\ \E in \in OverlapInputs : src = in[1] /\ cap = in[2]
       /\ partial = FALSE
       /\ LZ4_FAST_DEC_LOOP = TRUE
       /\ InitRegs

SpecOverlap == InitOverlap /\ [][Next]_vars

(***************************************************************************)
(* Blocks that are one literals-only sequence                              *)
(***************************************************************************)
MaxLiterals == 34   \* literal lengths 0 .. MaxLiterals, and the two long ones
MaxRoom == 66       \* capacities from the literal length to MaxRoom above it

\* the literal bytes of a run of n
Text(n) == [i \in 1..n |-> (96 + i) % 256]

LiteralsBlock(n) == <<16 * Nibble(n)>> \o LengthBytes(n) \o Text(n)

\* the lengths whose extension is 255 0 and 255 1
LiteralLengths == (0..MaxLiterals) \cup {RUN_MASK + 255, RUN_MASK + 256}

LiteralsInputs == {<<LiteralsBlock(n), n + k>> : n \in LiteralLengths, k \in 0..MaxRoom}

InitLiterals ==
    \/ Init
    \/ /\ \E in \in LiteralsInputs : src = in[1] /\ cap = in[2]
       /\ partial = FALSE
       /\ LZ4_FAST_DEC_LOOP = TRUE
       /\ InitRegs

SpecLiterals == InitLiterals /\ [][Next]_vars

(***************************************************************************)
(* Blocks whose match ends near the end of the output: a literal run, a    *)
(* match, and a last literal run of 0 .. MaxLast bytes                     *)
(***************************************************************************)
MaxLast == 6

TailBlock(lit, off, ml, last) ==
    <<16 * lit + Nibble(ml - MINMATCH)>> \o Lits(lit, 97) \o <<off, 0>>
        \o LengthBytes(ml - MINMATCH) \o <<16 * last>> \o Lits(last, 120)

\* the capacity is the decoded size, or leaves room for the fast loop
TailInputs ==
    {<<TailBlock(lit, off, ml, last), lit + ml + last + k>> :
         lit \in {8, 14}, off \in {7, 8}, ml \in {MINMATCH, 18, 19, 60},
         last \in 0..MaxLast, k \in {0, FASTLOOP_SAFE_DISTANCE}}

InitTail ==
    \/ Init
    \/ /\ \E in \in TailInputs : src = in[1] /\ cap = in[2]
       /\ partial = FALSE
       /\ LZ4_FAST_DEC_LOOP = TRUE
       /\ InitRegs

SpecTail == InitTail /\ [][Next]_vars

\* the same blocks given to the engine in partial-decoding mode, with every
\* capacity up to the decoded size
PartialTailInputs ==
    {<<TailBlock(lit, off, ml, last), k>> :
         lit \in {8, 14}, off \in {7, 8}, ml \in {MINMATCH, 18, 19, 60},
         last \in 0..MaxLast, k \in 0..(14 + 60 + MaxLast)}

InitPartialTail ==
    \/ InitPartial
    \/ /\ \E in \in PartialTailInputs : src = in[1] /\ cap = in[2] /\ cap <= DecodedSize(in[1])
       /\ partial = TRUE
       /\ LZ4_FAST_DEC_LOOP = TRUE
       /\ InitRegs

SpecPartialTail == InitPartialTail /\ [][Next]_vars

(***************************************************************************)
(* The same call made on a destination buffer with other contents          *)
(***************************************************************************)
\* a byte of the second buffer that the call has not written: it differs from
\* the byte the first buffer had at that place
Refilled == -2

\* after the call has returned, the same arguments are given again with a dst
\* that holds other bytes; the first outcome is kept
DecodeRefilled ==
    /\ pc \in {"Done", "Error"} /\ firstRun = <<>>
    /\ firstRun' = <<ret, dst>>
    /\ dst' = [i \in 1..cap |-> Refilled]
    /\ ip' = 0 /\ op' = 0 /\ cpy' = 0 /\ token' = 0 /\ length' = 0 /\ offset' = 0 /\ match' = 0
    /\ pc' = "entry" /\ ret' = 0
    /\ wrLo' = 0 /\ wrHi' = 0 /\ rdLo' = 0 /\ rdHi' = 0 /\ mrdLo' = 0 /\ mrdHi' = 0
    /\ nOut' = 0 /\ offs' = <<>> /\ mends' = <<>>
    /\ UNCHANGED <<src, cap, partial, call, LZ4_FAST_DEC_LOOP>>

NextRefilled == Next \/ DecodeRefilled

SpecRefilled == Init /\ [][NextRefilled]_vars

(***************************************************************************)
(* The same block decoded again into a larger destination buffer           *)
(***************************************************************************)
MaxExtra == 66      \* the second buffer is 1 .. MaxExtra bytes larger

\* after a call that has filled its buffer exactly, the same block is decoded
\* into a buffer that is larger; the first outcome is kept
DecodeWithRoom ==
    /\ pc = "Done" /\ ret = cap /\ cap > 0 /\ firstRun = <<>>
    /\ firstRun' = <<ret, dst>>
    /\ \E extra \in 1..MaxExtra :
          /\ cap' = cap + extra
          /\ dst' = [i \in 1..(cap + extra) |-> Uninit]
    /\ ip' = 0 /\ op' = 0 /\ cpy' = 0 /\ token' = 0 /\ length' = 0 /\ offset' = 0 /\ match' = 0
    /\ pc' = "entry" /\ ret' = 0
    /\ wrLo' = 0 /\ wrHi' = 0 /\ rdLo' = 0 /\ rdHi' = 0 /\ mrdLo' = 0 /\ mrdHi' = 0
    /\ nOut' = 0 /\ offs' = <<>> /\ mends' = <<>>
    /\ UNCHANGED <<src, partial, call, LZ4_FAST_DEC_LOOP>>

NextWithRoom == Next \/ DecodeWithRoom

\* the first call is given a block as it is, or with its first token or the
\* byte after it replaced, possibly cut short
InitWithRoom ==
    /\ \E in \in LiveInputs : src = in[1] /\ cap = in[2]
    /\ partial = FALSE
    /\ LZ4_FAST_DEC_LOOP = TRUE
    /\ InitRegs

SpecWithRoom == InitWithRoom /\ [][NextWithRoom]_vars

(***************************************************************************)
(* LZ4_compressBound (lz4.h, lz4.c)                                        *)
(***************************************************************************)
LZ4_MAX_INPUT_SIZE == 2113929216    \* 0x7E000000
INT_MAX == 2147483647
INT_MIN == (-INT_MAX) - 1

\* (unsigned)x for a 32-bit int x, as <<bit 31, bits 30..0>>
Unsigned(x) == IF x < 0 THEN <<1, (x + INT_MAX) + 1>> ELSE <<0, x>>

\* a > b on two unsigned values
UGreater(a, b) == a[1] > b[1] \/ (a[1] = b[1] /\ a[2] > b[2])

\* variant: the largest size is refused too
LZ4_COMPRESSBOUND_exclusive(isize) ==
    IF ~UGreater(Unsigned(LZ4_MAX_INPUT_SIZE), Unsigned(isize))
    THEN 0
    ELSE isize + (isize \div 255) + 16

\* the macro; the division is only reached with isize >= 0
LZ4_COMPRESSBOUND(isize) ==
    IF UGreater(Unsigned(isize), Unsigned(LZ4_MAX_INPUT_SIZE))
    THEN 0
    ELSE isize + (isize \div 255) + 16

LZ4_compressBound(isize) == LZ4_COMPRESSBOUND(isize)

\* the variables of the decoder
DecoderVars == <<src, cap, partial, dst, ip, op, cpy, token, length, offset, match, pc, ret,
                 wrLo, wrHi, rdLo, rdHi, mrdLo, mrdHi, nOut, offs, mends,
                 LZ4_FAST_DEC_LOOP, firstRun>>

\* no call of the decoder is in progress
NoDecoding ==
    /\ src = <<>> /\ cap = 0 /\ partial = FALSE /\ LZ4_FAST_DEC_LOOP = TRUE
    /\ firstRun = <<>>
    /\ dst = <<>>
    /\ ip = 0 /\ op = 0 /\ cpy = 0 /\ token = 0 /\ length = 0 /\ offset = 0 /\ match = 0
    /\ pc = "none" /\ ret = 0
    /\ wrLo = 0 /\ wrHi = 0 /\ rdLo = 0 /\ rdHi = 0 /\ mrdLo = 0 /\ mrdHi = 0
    /\ nOut = 0 /\ offs = <<>> /\ mends = <<>>

\* sizes given to LZ4_compressBound: the small ones, and those around the
\* limits of the accepted range and of int
MaxSize == 300
BoundSizes ==
    (0..MaxSize)
    \cup {INT_MIN, INT_MIN + 1, -LZ4_MAX_INPUT_SIZE, -65536, -256, -255, -1}
    \cup {65535, 65536, 16777215, 1073741824}
    \cup {LZ4_MAX_INPUT_SIZE - 255, LZ4_MAX_INPUT_SIZE - 1, LZ4_MAX_INPUT_SIZE,
          LZ4_MAX_INPUT_SIZE + 1, LZ4_MAX_INPUT_SIZE + 255, INT_MAX - 1, INT_MAX}

InitBound ==
    /\ NoDecoding
    /\ \E n \in BoundSizes :
          call = [fn |-> "LZ4_compressBound", isize |-> n, done |-> FALSE, result |-> 0]

\* the call of LZ4_compressBound returns
CompressBound ==
    /\ call.fn = "LZ4_compressBound" /\ ~call.done
    /\ call' = [call EXCEPT !.done = TRUE, !.result = LZ4_compressBound(call.isize)]
    /\ UNCHANGED DecoderVars

NextBound == CompressBound

SpecBound == InitBound /\ [][NextBound]_vars

(***************************************************************************)
(* read_variable_length called on its own: src is the buffer, call.ip the  *)
(* cursor, call.lencheck the limit                                         *)
(***************************************************************************)
MaxBuffer == 4
LengthByteValues == {0, 1, 254, 255}

Buffers == UNION {[1..n -> LengthByteValues] : n \in 1..MaxBuffer}

\* the reads of the call stay inside the buffer: either the test before the
\* loop returns before any read, or the first byte is there and the loop is
\* stopped by the limit or by a byte below 255
ReadsInsideBuffer(buf, p, lencheck, loop_check, initial_check) ==
    \/ initial_check /\ p >= lencheck
    \/ /\ p < Len(buf)
       /\ \/ loop_check /\ lencheck <= Len(buf)
          \/ \E q \in (p + 1)..Len(buf) : buf[q] # 255

InitLength ==
    /\ \E buf \in Buffers, p \in 0..MaxBuffer, lim \in 0..(MaxBuffer + 1), lc \in BOOLEAN, ic \in BOOLEAN :
          /\ ReadsInsideBuffer(buf, p, lim, lc, ic)
          /\ src = buf
          /\ call = [fn |-> "read_variable_length", start |-> p, ip |-> p, lencheck |-> lim,
                     loop_check |-> lc, initial_check |-> ic,
                     done |-> FALSE, length |-> 0, error |-> ok]
    /\ cap = 0 /\ partial = FALSE /\ LZ4_FAST_DEC_LOOP = TRUE
    /\ firstRun = <<>>
    /\ dst = <<>>
    /\ ip = 0 /\ op = 0 /\ cpy = 0 /\ token = 0 /\ length = 0 /\ offset = 0 /\ match = 0
    /\ pc = "none" /\ ret = 0
    /\ wrLo = 0 /\ wrHi = 0 /\ rdLo = 0 /\ rdHi = 0 /\ mrdLo = 0 /\ mrdHi = 0
    /\ nOut = 0 /\ offs = <<>> /\ mends = <<>>

\* the call of read_variable_length returns: *ip, the length and *error
ReadVariableLength ==
    /\ call.fn = "read_variable_length" /\ ~call.done
    /\ LET r == read_variable_length(call.ip, call.lencheck, call.loop_check, call.initial_check)
       IN  call' = [call EXCEPT !.done = TRUE, !.length = r.length, !.ip = r.ip, !.error = r.error]
    /\ UNCHANGED DecoderVars

NextLength == ReadVariableLength

SpecLength == InitLength /\ [][NextLength]_vars

(***************************************************************************)
(* LZ4_wildCopy8 and LZ4_wildCopy32 called on their own: call.d is dstPtr,  *)
(* call.s srcPtr and call.e dstEnd, as indices; the source is the block    *)
(* (literals) or the destination itself (a match at a distance >= 16)      *)
(***************************************************************************)
MaxCopy == 40       \* dstEnd - dstPtr is -2 .. MaxCopy
WildStarts == {2, 5, 20}
WildDistances == {16, 21}

\* the bytes the destination holds before dstPtr
Written(n, size) == [i \in 1..size |-> IF i <= n THEN (64 + i) % 256 ELSE Uninit]

WildCalls ==
    {[fn |-> f, from |-> "src", d |-> d, s |-> s, e |-> d + n, done |-> FALSE] :
         f \in {"LZ4_wildCopy8", "LZ4_wildCopy32"}, d \in WildStarts, s \in 0..1,
         n \in (-2)..MaxCopy}
    \cup
    {[fn |-> f, from |-> "dst", d |-> d, s |-> d - k, e |-> d + n, done |-> FALSE] :
         f \in {"LZ4_wildCopy8", "LZ4_wildCopy32"}, d \in {x \in WildStarts : x >= 16},
         k \in {x \in WildDistances : x <= 20}, n \in (-2)..MaxCopy}

InitWild ==
    /\ \E c \in WildCalls :
          /\ call = c
          /\ wrLo = c.d /\ wrHi = c.d
          /\ rdLo = (IF c.from = "src" THEN c.s ELSE 0) /\ rdHi = rdLo
          /\ mrdLo = (IF c.from = "dst" THEN c.s ELSE 0) /\ mrdHi = mrdLo
          /\ dst = Written(c.d, 20 + MaxCopy + 64)
    /\ src = Text(2 + MaxCopy + 64)
    /\ cap = Len(dst) /\ partial = FALSE /\ LZ4_FAST_DEC_LOOP = TRUE
    /\ firstRun = <<>>
    /\ ip = 0 /\ op = 0 /\ cpy = 0 /\ token = 0 /\ length = 0 /\ offset = 0 /\ match = 0
    /\ pc = "none" /\ ret = 0
    /\ nOut = 0 /\ offs = <<>> /\ mends = <<>>

WildUnchanged ==
    UNCHANGED <<src, cap, partial, ip, op, cpy, token, length, offset, match, pc, ret,
                nOut, offs, mends, LZ4_FAST_DEC_LOOP, firstRun>>

\* the call of LZ4_wildCopy8 returns
WildCopy8 ==
    /\ call.fn = "LZ4_wildCopy8" /\ ~call.done
    /\ call' = [call EXCEPT !.done = TRUE]
    /\ SetMem(LZ4_wildCopy8(Mem, call.from, call.d, call.s, call.e))
    /\ WildUnchanged

\* the call of LZ4_wildCopy32 returns
WildCopy32 ==
    /\ call.fn = "LZ4_wildCopy32" /\ ~call.done
    /\ call' = [call EXCEPT !.done = TRUE]
    /\ SetMem(LZ4_wildCopy32(Mem, call.from, call.d, call.s, call.e))
    /\ WildUnchanged

NextWild == WildCopy8 \/ WildCopy32

SpecWild == InitWild /\ [][NextWild]_vars

(***************************************************************************)
(* Properties of LZ4_decompress_safe()                                     *)
(***************************************************************************)

\* C1: whatever the input bytes, LZ4_decompress_safe never writes a byte outside
\* dst[0 .. dstCapacity), whether the call ends in success or in error: the
\* extent of all writes, scratch writes of the wild copies included, stays
\* inside the buffer
C1_WritesInsideDst == wrLo >= 0 /\ wrHi <= cap /\ Len(dst) = cap

\* a corrupted block has been rejected after the wild copy of a match wrote up
\* to the very end of the buffer, past the output cursor
C1_Witness ==
    /\ pc = "Error" /\ ~RefDecodeZero(src).ok
    /\ Len(mends) >= 1 /\ op < cap /\ wrHi = cap

\* C2: LZ4_decompress_safe never reads a source byte at or beyond
\* src + compressedSize, and the reads of its match copies stay inside the
\* destination buffer
C2_ReadsInsideBuffers ==
    /\ rdLo >= 0 /\ rdHi <= srcSize
    /\ mrdLo >= 0 /\ mrdHi <= cap

\* a block with several matches has been decoded: the last source byte has been
\* read, and a match has read the first byte of the destination
C2_Witness ==
    /\ pc = "Done" /\ Len(mends) >= 2
    /\ rdHi = srcSize /\ mrdLo = 0 /\ mrdHi > 0

\* C3: every malformed input (a block the format does not allow: corrupted
\* token, offset or length extension, truncated block) makes
\* LZ4_decompress_safe return a strictly negative value
C3_MalformedRejected ==
    (pc \in {"Done", "Error"} /\ ~RefDecode(src).ok) => (pc = "Error" /\ ret < 0)

\* C3, the part that holds: the error exit returns a negative value and the
\* successful exits a non-negative one
C3_SignSeparates == (pc = "Error" => ret < 0) /\ (pc = "Done" => ret >= 0)

\* C3, the part that holds: a malformed input is rejected unless its only
\* defects are offsets equal to 0
C3_RejectedExceptOffsetZero ==
    (pc \in {"Done", "Error"} /\ ~RefDecodeZero(src).ok) => (pc = "Error" /\ ret < 0)

\* C4: on success the value returned is the number of bytes written to dst: it
\* is the output cursor at exit, the number of bytes the sequences produced,
\* every byte below it has been written, and 0 <= r <= dstCapacity
C4_ReturnsBytesWritten ==
    pc = "Done" =>
        /\ ret = op /\ ret = nOut
        /\ ret >= 0 /\ ret <= cap
        /\ \A i \in 1..ret : dst[i] # Uninit

\* a block with matches has been decoded into a buffer with room to spare
C4_Witness == pc = "Done" /\ Len(mends) >= 2 /\ ret > 0 /\ ret < cap

\* C5 as stated: the engine leaves its loop for the successful exit only when,
\* in non-partial mode, the last sequence ends exactly at the end of the input
\* and exactly at the end of the destination capacity, both at once, or, in
\* partial-decoding mode, the output buffer is exactly full
C5_ExactEnds ==
    pc = "end_of_decoding" =>
        IF partial THEN op = oend ELSE (ip = iend /\ op = oend)

\* C5: the engine exits successfully only when, in non-partial mode, the last
\* sequence ends exactly at the end of the input with the output cursor at or
\* before the end of the destination capacity (or the block is the empty block
\* and the capacity 0), or, in partial-decoding mode, the output buffer is
\* exactly full or the last literal run ends exactly at the end of the input
C5_SuccessExits ==
    pc \in {"end_of_decoding", "Done"} =>
        IF partial
        THEN op = oend \/ ip = iend
        ELSE (ip = iend /\ op <= oend) \/ (pc = "Done" /\ cap = 0 /\ src = <<0>>)

\* a full-block decoding has succeeded short of the end of a non-empty buffer
C5_Witness == pc = "Done" /\ ~partial /\ op > 0 /\ op < oend /\ ip = iend

\* C6: LZ4_decompress_safe succeeds only if the input cursor is at
\* src + compressedSize at the end of the final literal run: the loop is left
\* for the successful exit only there (the empty block into a buffer of
\* capacity 0 is accepted before any run is parsed)
C6_InputConsumed ==
    /\ pc = "end_of_decoding" => ip = iend
    /\ pc = "Done" => (ip = iend \/ (cap = 0 /\ src = <<0>>))

\* the final literal run of a block with a match has ended at the end of the
\* input
C6_Witness == pc = "end_of_decoding" /\ Len(mends) >= 1 /\ length > 0 /\ ip = iend

\* C7: a block that encodes more bytes than dstCapacity makes
\* LZ4_decompress_safe return a negative value, and a success never returns
\* fewer bytes than the block encodes
C7_OverflowRejected ==
    LET r == RefDecodeZero(src)
    IN  /\ (pc \in {"Done", "Error"} /\ r.ok /\ Len(r.out) > cap) => (pc = "Error" /\ ret < 0)
        /\ pc = "Done" => ret = Len(r.out)

\* a well-formed block with matches, one byte larger than the buffer, has been
\* rejected
C7_Witness ==
    /\ pc = "Error" /\ ret < 0
    /\ RefDecode(src).ok /\ Len(RefDecode(src).out) = cap + 1 /\ Len(mends) >= 1

\* C8: a block in which an offset field is 0 is never accepted
C8_OffsetZeroRejected ==
    pc = "Done" => \A i \in 1..Len(offs) : offs[i][1] # 0

\* C9: once an offset larger than the number of bytes produced so far has been
\* read, the only steps left are the decoding of the match length and the check
\* that rejects the offset: the call ends in error with a negative value and no
\* match copy reads before dst
C9_OffsetBeyondOutputRejected ==
    /\ (\E i \in 1..Len(offs) : offs[i][1] > offs[i][2]) =>
           /\ pc \in {"_copy_match", "safe_match_copy", "_output_error", "Error"}
           /\ pc = "Error" => ret < 0
    /\ mrdLo >= 0

\* a block whose second or later offset points before dst has been rejected
C9_Witness ==
    /\ pc = "Error" /\ ret < 0 /\ Len(offs) >= 2
    /\ offs[Len(offs)][1] > offs[Len(offs)][2]

\* C10: a block that conforms to the block format and respects the end-of-block
\* restrictions is decoded, for every dstCapacity at least its decoded size, to
\* exactly its reference expansion, whose length is returned; the block of the
\* empty input included
C10_DecodesConforming ==
    LET r == RefDecode(src)
    IN  (pc \in {"Done", "Error"} /\ Conforming(src) /\ cap >= Len(r.out)) =>
            /\ pc = "Done" /\ ret = Len(r.out)
            /\ \A i \in 1..ret : dst[i] = r.out[i]

\* a conforming block with matches of offsets below 8 has been decoded
C10_Witness ==
    /\ pc = "Done" /\ Conforming(src) /\ ret > 0
    /\ \E i \in 1..Len(offs) : offs[i][1] = 7

\* C11: a call with compressedSize = 0 fails whatever dstCapacity is: it goes
\* from the entry straight to the error exit, returns a negative value and
\* reads no source byte
C11_EmptySourceFails ==
    srcSize = 0 =>
        /\ pc \in {"entry", "Error"}
        /\ pc = "Error" => ret < 0
        /\ rdLo = 0 /\ rdHi = 0

\* an empty source has been rejected with a buffer large enough for the fast loop
C11_Witness == pc = "Error" /\ srcSize = 0 /\ cap >= FASTLOOP_SAFE_DISTANCE /\ ret < 0

\* C12: a call with dstCapacity = 0 returns 0 if and only if the source is the
\* one byte 0x00; for every other source it returns a negative value; in both
\* cases nothing is written to dst
C12_EmptyOutputBuffer ==
    cap = 0 =>
        /\ pc \in {"entry", "Done", "Error"}
        /\ pc = "Done" => (ret = 0 /\ src = <<0>>)
        /\ pc = "Error" => (ret < 0 /\ src # <<0>>)
        /\ wrLo = 0 /\ wrHi = 0

\* a one-byte source other than 0x00 has been read and rejected with an empty
\* output buffer
C12_Witness == pc = "Error" /\ cap = 0 /\ srcSize = 1 /\ rdHi = 1 /\ ret < 0

\* C13 as stated: the value returned on failure is one sentinel, the same for
\* every kind of error and every position at which it is detected (the value -1
\* of the special cases)
C13_UniformSentinel == pc = "Error" => ret = -1

\* C13: every detected error is reported as a negative value that encodes no
\* kind of error: it is -(ip - src) - 1, the position of the input cursor where
\* the error was detected, between -1 and -(compressedSize + 1)
C13_ErrorValueIsPosition ==
    pc = "Error" =>
        /\ ret = (-ip) - 1
        /\ ret < 0 /\ ret >= (-srcSize) - 1

\* an error has been detected after a match was decoded, with a value other
\* than -1
C13_Witness == pc = "Error" /\ Len(mends) >= 1 /\ ret < -1

\* C14: every call of the decode engine terminates: the input cursor stays
\* between src and src + compressedSize, never moves back, every iteration of
\* the fast loop and of the safe loop starts by advancing it by at least one
\* byte, and the call eventually reaches Done or Error
C14_Terminates ==
    /\ [](ip >= 0 /\ ip <= iend)
    /\ [][/\ ip' >= ip
          /\ pc \in {"fast_loop", "safe_decode"} => ip' > ip]_vars
    /\ <>(pc \in {"Done", "Error"})

\* a call has returned after at least three loop iterations that decoded a match
C14_Witness == pc \in {"Done", "Error"} /\ Len(mends) >= 3 /\ ip <= iend

\* C15: LZ4_compressBound(n) is n + n/255 + 16 for every 0 <= n <=
\* LZ4_MAX_INPUT_SIZE and 0 for every n that is negative or larger; the result
\* always fits in an int
C15_CompressBound ==
    (call.fn = "LZ4_compressBound" /\ call.done) =>
        /\ call.result = IF call.isize >= 0 /\ call.isize <= LZ4_MAX_INPUT_SIZE
                         THEN call.isize + (call.isize \div 255) + 16
                         ELSE 0
        /\ call.result >= 0 /\ call.result <= INT_MAX
        /\ (call.isize >= 0 /\ call.isize <= LZ4_MAX_INPUT_SIZE) => call.result >= call.isize + 16

\* the bound of the largest accepted size has been computed
C15_Witness ==
    /\ call.fn = "LZ4_compressBound" /\ call.done
    /\ call.isize = LZ4_MAX_INPUT_SIZE /\ call.result = 2122219150

\* C16: in partial-decoding mode, for a block that conforms to the block format
\* and respects the end-of-block restrictions, of decoded size D, and a capacity
\* C < D, nothing is written at an index >= C and the engine returns exactly C
\* with dst[0 .. C) equal to the first C bytes of the full decoding: the literal
\* run or match that would cross C ends exactly at C
C16_PartialDecoding ==
    LET r == RefDecode(src)
    IN  (partial /\ Conforming(src) /\ cap < Len(r.out)) =>
            /\ wrLo >= 0 /\ wrHi <= cap
            /\ pc \in {"Done", "Error"} =>
                   /\ pc = "Done" /\ ret = cap /\ op = cap
                   /\ \A i \in 1..cap : dst[i] = r.out[i]

\* C16 as first stated: the same for every block that the block format alone
\* makes well-formed, whether or not it respects the end-of-block restrictions
C16_WellFormedDecoding ==
    LET r == RefDecode(src)
    IN  (partial /\ r.ok /\ cap < Len(r.out)) =>
            /\ wrLo >= 0 /\ wrHi <= cap
            /\ pc \in {"Done", "Error"} =>
                   /\ pc = "Done" /\ ret = cap /\ op = cap
                   /\ \A i \in 1..cap : dst[i] = r.out[i]

\* a partial decoding has ended in the middle of a match
C16_Witness ==
    /\ partial /\ pc = "Done" /\ ret = cap /\ Conforming(src) /\ cap < DecodedSize(src)
    /\ Len(mends) >= 1
    /\ mends[Len(mends)][1] < cap /\ mends[Len(mends)][1] + mends[Len(mends)][2] > cap

\* C17: the build with the fast loop and the build with the safe loop alone
\* agree on every input: one returns a negative value exactly when the other
\* does, and when they succeed they return the same value and the same
\* dst[0 .. return)
C17_BuildsAgree ==
    (pc \in {"Done", "Error"} /\ firstRun # <<>>) =>
        /\ (ret < 0) <=> (firstRun[1] < 0)
        /\ ret >= 0 => /\ ret = firstRun[1]
                       /\ \A i \in 1..ret : dst[i] = firstRun[2][i]

\* C17 as stated: the two builds give the same return value, negative ones
\* included, and the same dst[0 .. return)
C17_SameReturnValue ==
    (pc \in {"Done", "Error"} /\ firstRun # <<>>) =>
        /\ ret = firstRun[1]
        /\ \A i \in 1..ret : dst[i] = firstRun[2][i]

\* both builds have decoded a block with several matches, the first of them in
\* the fast loop, which handed over to the safe loop
C17_Witness ==
    /\ pc = "Done" /\ firstRun # <<>> /\ ~LZ4_FAST_DEC_LOOP
    /\ cap >= FASTLOOP_SAFE_DISTANCE /\ Len(mends) >= 3 /\ ret = firstRun[1] /\ ret > 0

\* C18: a match at an offset in 1..7 tiles the bytes before it: each of its
\* positions p holds out[p] = out[p - offset], in the safe loop (inc32table,
\* dec64table) and in the fast loop (LZ4_memcpy_using_offset); after the first
\* 8 bytes the adjusted source is at a distance from the destination that is a
\* multiple of the offset and at least 8; "ab", offset 2, match-length nibble 2
\* gives a b a b a b a b
C18_OverlapTiles ==
    /\ \A o \in 1..7 :
           LET d == ((o + 8) - inc32table[o + 1]) + dec64table[o + 1]
           IN  d >= 8 /\ d % o = 0
    /\ (pc = "safe_match_tail" /\ offset \in 1..7) =>
           ((op - match) >= 8 /\ (op - match) % offset = 0)
    /\ pc = "Done" =>
           \A k \in 1..Len(mends) :
               offs[k][1] \in 1..7 =>
                   \A p \in mends[k][1]..(mends[k][1] + mends[k][2] - 1) :
                       dst[p + 1] = dst[(p + 1) - offs[k][1]]
    /\ (pc = "Done" /\ src = Blocks[3]) =>
           SubSeq(dst, 1, 8) = <<97, 98, 97, 98, 97, 98, 97, 98>>

\* a match at offset 7 longer than 16 bytes has been copied by the fast loop
C18_Witness ==
    /\ pc = "Done" /\ cap >= op + FASTLOOP_SAFE_DISTANCE
    /\ Len(mends) = 1 /\ offs[1][1] = 7 /\ mends[1][2] > 16 /\ op = ret

\* C19: a block that is one literals-only sequence of literal length L (the
\* nibble L below 15; the nibble 15 and extension bytes that sum to L - 15
\* from 15 on, L = 15 with the single extension byte 0 included) followed by
\* exactly L literal bytes decodes, for every capacity >= L, to those L bytes
\* with the return value L; 0x40 a b c d decodes to "abcd"
C19_LiteralsOnly ==
    /\ \A n \in LiteralLengths :
           (pc \in {"Done", "Error"} /\ src = LiteralsBlock(n) /\ cap >= n) =>
               (pc = "Done" /\ ret = n /\ SubSeq(dst, 1, n) = Text(n))
    /\ (pc \in {"Done", "Error"} /\ src = <<64, 97, 98, 99, 100>> /\ cap >= 4) =>
           (pc = "Done" /\ ret = 4 /\ SubSeq(dst, 1, 4) = <<97, 98, 99, 100>>)

\* 15 literals, announced by the nibble 15 and the extension byte 0, have been
\* decoded by a call that entered the fast loop
C19_Witness ==
    /\ pc = "Done" /\ src = LiteralsBlock(RUN_MASK) /\ src[2] = 0
    /\ cap >= FASTLOOP_SAFE_DISTANCE /\ ret = RUN_MASK

\* the sum of the buffer's bytes at the indices lo .. hi - 1
RECURSIVE SumOfBytes(_, _)
SumOfBytes(lo, hi) == IF lo >= hi THEN 0 ELSE SrcAt(lo) + SumOfBytes(lo + 1, hi)

\* C20: when read_variable_length reports no error, it has consumed at least
\* one byte, the cursor has advanced by the number of bytes consumed, every
\* consumed byte but the last is 255, the last is below 255, and the value
\* returned is the sum of the consumed bytes
C20_LengthIsSumOfBytes ==
    (call.fn = "read_variable_length" /\ call.done /\ call.error = ok) =>
        /\ call.ip >= call.start + 1 /\ call.ip <= Len(src)
        /\ \A q \in call.start..(call.ip - 2) : SrcAt(q) = 255
        /\ SrcAt(call.ip - 1) \in 0..254
        /\ call.length = SumOfBytes(call.start, call.ip)

\* three bytes have been consumed without error
C20_Witness ==
    /\ call.fn = "read_variable_length" /\ call.done /\ call.error = ok
    /\ call.ip = call.start + 3 /\ call.length > 510

\* C21: read_variable_length reports initial_error exactly when initial_check
\* is on and the cursor is at or beyond the limit at entry, and then no byte is
\* read and the cursor is unchanged; it reports loop_error when loop_check is
\* on and a read after the first would be at or beyond the limit (the bytes
\* up to the limit are all 255), and only after a read that brought the cursor
\* to the limit; with a toggle off its error is never reported
C21_OverflowErrors ==
    (call.fn = "read_variable_length" /\ call.done) =>
        LET atLimit == call.initial_check /\ call.start >= call.lencheck
        IN  /\ (call.error = initial_error) <=> atLimit
            /\ call.error = initial_error => (call.ip = call.start /\ call.length = 0)
            /\ (/\ call.loop_check /\ ~atLimit
                /\ \E q \in call.start..(Len(src) - 1) :
                       /\ q + 1 >= call.lencheck
                       /\ \A r \in call.start..q : SrcAt(r) = 255)
                   => call.error = loop_error
            /\ call.error = loop_error =>
                   /\ call.loop_check /\ call.ip > call.start /\ call.ip >= call.lencheck
                   /\ \A r \in call.start..(call.ip - 2) : SrcAt(r) = 255 /\ r + 1 < call.lencheck
            /\ ~call.initial_check => call.error # initial_error
            /\ ~call.loop_check => call.error # loop_error

\* the loop has stopped at the limit after a second byte of 255, with the
\* check before the loop on as well
C21_Witness ==
    /\ call.fn = "read_variable_length" /\ call.done /\ call.error = loop_error
    /\ call.initial_check /\ call.ip = call.start + 2 /\ SrcAt(call.ip - 1) = 255
    /\ call.ip = call.lencheck

\* the chunk of the wild copy that was called
ChunkSize == IF call.fn = "LZ4_wildCopy8" THEN 8 ELSE 32

\* C22: LZ4_wildCopy8 (chunks of 8) and LZ4_wildCopy32 (chunks of 32) write a
\* whole number of chunks from dstPtr, at least one; when dstPtr is before
\* dstEnd they reach dstEnd and pass it by at most chunk size - 1 bytes; when
\* dstPtr is already at dstEnd or beyond they write one chunk, which ends a
\* whole chunk size past dstPtr
C22_WholeChunks ==
    (call.fn \in {"LZ4_wildCopy8", "LZ4_wildCopy32"} /\ call.done) =>
        /\ wrLo = call.d
        /\ (wrHi - call.d) % ChunkSize = 0 /\ wrHi - call.d >= ChunkSize
        /\ \A i \in call.d..(wrHi - 1) :
               dst[i + 1] = (IF call.from = "src" THEN src[call.s + (i - call.d) + 1]
                             ELSE (64 + (call.s + (i - call.d)) + 1) % 256)
               \/ (call.from = "dst" /\ call.s + (i - call.d) >= call.d)
        /\ call.d < call.e => (wrHi >= call.e /\ wrHi - call.e <= ChunkSize - 1)
        /\ call.d >= call.e => wrHi = call.d + ChunkSize

\* C22 as stated: a whole number of chunks, and at most chunk size - 1 bytes
\* past dstEnd in every call, dstPtr = dstEnd included
C22_AtMostChunkMinusOne ==
    (call.fn \in {"LZ4_wildCopy8", "LZ4_wildCopy32"} /\ call.done) =>
        /\ (wrHi - call.d) % ChunkSize = 0
        /\ wrHi - call.e <= ChunkSize - 1

\* LZ4_wildCopy32 has written two chunks and passed dstEnd by 31 bytes
C22_Witness ==
    /\ call.fn = "LZ4_wildCopy32" /\ call.done
    /\ call.e - call.d = 33 /\ wrHi = call.e + 31

\* C23: during a call the input cursor never decreases and stays within
\* [src, src + compressedSize]; the output cursor stays within
\* [dst, dst + dstCapacity] and never decreases except in the match copy of the
\* safe loop, which first adds 8 to it and then sets it to the end of the match
\* (op = cpy): that step takes it back by at most 8 - MINMATCH bytes, to a
\* value that is MINMATCH or more above the one it had before the match
C23_CursorsAdvance ==
    /\ [](ip >= 0 /\ ip <= iend /\ op >= 0 /\ op <= oend)
    /\ [][/\ ip' >= ip
          /\ \/ op' >= op
             \/ /\ pc = "safe_match_tail" /\ pc' = "safe_decode"
                /\ op' = cpy /\ op' >= (op - 8) + MINMATCH]_vars

\* C23 as stated: in every step of the engine each cursor is at least its
\* previous value, and each stays within its limit
C23_NeverRewinds ==
    /\ [](ip <= iend /\ op <= oend)
    /\ [][ip' >= ip /\ op' >= op]_vars

\* the safe loop has added 8 to the output cursor for a match shorter than 8
C23_Witness ==
    /\ pc = "safe_match_tail" /\ op > cpy /\ ~MatchEndError
    /\ Len(mends) >= 1 /\ mends[Len(mends)][2] < 8 /\ op = mends[Len(mends)][1] + 8

\* C24: in non-partial mode the last LASTLITERALS bytes of the destination
\* capacity must be literals: no call succeeds after a match whose end
\* (op + match length) lies beyond dstCapacity - LASTLITERALS, whichever path
\* has copied the match
C24_LastBytesAreLiterals ==
    ((~partial) /\ pc = "Done") =>
        \A k \in 1..Len(mends) : mends[k][1] + mends[k][2] <= cap - LASTLITERALS

\* C24: in non-partial mode the general match copy of the safe loop, which
\* also copies the matches the fast loop hands over, rejects every match whose
\* end lies beyond dstCapacity - LASTLITERALS; the matches that end there in a
\* successful call are those the shortcut of the safe loop has copied: offset
\* 8 or more, length 18 or less, start 18 bytes or more before the end of dst
C24_RejectedOutsideShortcut ==
    /\ []((~partial) /\ pc = "Done" =>
              \A k \in 1..Len(mends) :
                  mends[k][1] + mends[k][2] > cap - LASTLITERALS =>
                      /\ offs[k][1] >= 8 /\ mends[k][2] <= 18
                      /\ mends[k][1] <= shortoend + 14
                      /\ mends[k][1] + mends[k][2] <= cap)
    /\ []((~partial) /\ pc = "fast_match_copy" => op + length < oend - FASTLOOP_SAFE_DISTANCE)
    /\ [][((~partial) /\ pc = "safe_match_tail" /\ cpy > oend - LASTLITERALS)
              => pc' = "_output_error"]_vars

\* a match handed over by the fast loop, at an offset the shortcut would take,
\* has been rejected because it ends in the last LASTLITERALS bytes
C24_Witness ==
    /\ (~partial) /\ pc = "Error" /\ ret < 0 /\ cap >= FASTLOOP_SAFE_DISTANCE
    /\ Len(mends) = 1 /\ offs[1][1] >= 8 /\ cpy = mends[1][1] + mends[1][2]
    /\ cpy > cap - LASTLITERALS /\ cpy <= cap

\* C25: the fast loop runs only with its safety margin: at the start of each
\* of its iterations oend - op is at least FASTLOOP_SAFE_DISTANCE and the input
\* cursor is before the end of the input; at its match copy oend - op is at
\* least 32; and once the engine is in the safe loop it does not go back to
\* the fast loop
C25_FastLoopMargin ==
    /\ [](pc = "fast_loop" => ((oend - op) >= FASTLOOP_SAFE_DISTANCE /\ ip < iend))
    /\ [](pc = "fast_match_copy" => (op <= oend /\ (oend - op) >= 32))
    /\ [][pc \notin {"entry", "fast_loop", "fast_offset", "fast_match_copy"}
              => pc' \notin {"fast_loop", "fast_offset", "fast_match_copy"}]_vars

\* the fast loop starts a third iteration
C25_Witness ==
    /\ pc = "fast_loop" /\ Len(mends) >= 2 /\ LZ4_FAST_DEC_LOOP
    /\ op = mends[Len(mends)][1] + mends[Len(mends)][2]
    /\ (oend - op) >= FASTLOOP_SAFE_DISTANCE /\ ip < iend

\* C26: two calls of LZ4_decompress_safe with the same source bytes,
\* compressedSize and dstCapacity, on destination buffers with different
\* contents, return the same value and, on success, the same dst[0 .. return),
\* each byte of which is a byte value that comes from the block: no byte that
\* dst held before the call reaches the decoded output, not through the bytes
\* the stripe copies read ahead of the output cursor, not through a match at
\* offset 0
C26_IndependentOfDstContents ==
    (pc \in {"Done", "Error"} /\ firstRun # <<>>) =>
        /\ ret = firstRun[1]
        /\ ret >= 0 => \A i \in 1..ret : dst[i] = firstRun[2][i] /\ dst[i] \in 0..255

\* both calls have decoded a block with a match at offset 0, and the bytes
\* above the output still differ between the two buffers
C26_Witness ==
    /\ pc = "Done" /\ firstRun # <<>> /\ ret = firstRun[1] /\ ret > 0
    /\ \E k \in 1..Len(offs) : offs[k][1] = 0
    /\ \E i \in (ret + 1)..cap : dst[i] = Refilled /\ firstRun[2][i] = Uninit

\* C27: dstCapacity is an upper bound only: a block that respects the
\* end-of-block restrictions, of decoded size D, is decoded with the return
\* value D whenever dstCapacity >= D, and a call with a capacity above D gives
\* the same return value and the same dst[0 .. D) as the call with the capacity
\* D, whether the capacity leaves the engine in the safe loop or lets it enter
\* the fast loop
C27_CapacityIsUpperBound ==
    LET D == DecodedSize(src)
    IN  (pc \in {"Done", "Error"} /\ Conforming(src) /\ cap >= D) =>
            /\ pc = "Done" /\ ret = D
            /\ firstRun # <<>> =>
                   /\ firstRun[1] = D /\ Len(firstRun[2]) = D
                   /\ \A i \in 1..D : dst[i] = firstRun[2][i]

\* a block with matches, decoded by the safe loop into a buffer of its decoded
\* size, has been decoded again by a call that went through the fast loop
C27_Witness ==
    /\ pc = "Done" /\ firstRun # <<>> /\ Conforming(src)
    /\ Len(firstRun[2]) < FASTLOOP_SAFE_DISTANCE
    /\ cap >= FASTLOOP_SAFE_DISTANCE /\ Len(mends) >= 2 /\ ret = firstRun[1]

====
